---------------------------- MODULE Spec2Model ----------------------------
(***************************************************************************)
(* A model of rusty-stl: the batch driver (src/src/main.rs), the mesh      *)
(* analysis built on parry3d (src/src/geometry.rs) and the first,          *)
(* hand-written volume / bounding-box code (src/main.rs).                  *)
(*                                                                         *)
(* The module holds five state machines over disjoint groups of variables: *)
(*   SpecBatch   process_files / main of src/src/main.rs                   *)
(*   SpecMesh    StlMesh::new and From<&IndexedMesh> for StlMesh           *)
(*   SpecBBox    From<&IndexedMesh> for BoundingBox, BoundingBox::volume   *)
(*   SpecVolume  volume / vol_triangle_sgn / From<&IndexedMesh> for        *)
(*               VolumeInfo                                                *)
(*   SpecThick   StlMesh::calculate_thickness and std                      *)
(* Each specification leaves the other groups at their idle value.         *)
(*                                                                         *)
(* Numbers.  Coordinates, distances and areas are small integers.  An f32  *)
(* result that is not an integer is carried exactly: a volume as a count   *)
(* of sixths, an average or a variance as a fraction [n, d].  IEEE         *)
(* rounding is not modelled; NaN is (0.0 / 0.0 is a value of its own).     *)
(***************************************************************************)
EXTENDS Integers, Sequences, FiniteSets, TLC

VARIABLES
    \* ---- SpecBatch
    kind,        \* kind[f]: what the environment does to file f's pipeline
    fpc,         \* fpc[f]: where the closure of par_iter().flat_map is for f
    mpc,         \* where main is
    volumes,     \* the Vec that process_files returns (files, in order)
    out,         \* stdout, a sequence of lines
    \* ---- SpecMesh
    flatV,       \* vertices: &[f32]
    flatI,       \* indices: &[u32]
    built,       \* which constructor ran, and what came of it
    \* ---- SpecBBox
    bverts,      \* mesh.vertices
    bbox,        \* the BoundingBox, once computed
    bvol,        \* BoundingBox::volume, once computed
    \* ---- SpecVolume
    mesh,        \* the IndexedMesh: [vertices, faces]
    info,        \* VolumeInfo, once computed
    \* ---- SpecThick
    outlier_range, \* the argument: Option<OutlierLimits>
    bounds,      \* the OutlierLimits in force
    ntri,        \* number of triangles of the mesh
    ti,          \* triangles swept so far
    cur,         \* the triangle of the last iteration and its two ray casts
    thicknesses, \* Vec<f32>: the samples, in the order they were retained
    areas,       \* Vec<f32>: their weights
    tpc,         \* where calculate_thickness is
    stats        \* the Statistics returned

batchVars == <<kind, fpc, mpc, volumes, out>>
meshVars  == <<flatV, flatI, built>>
bboxVars  == <<bverts, bbox, bvol>>
volVars   == <<mesh, info>>
thickVars == <<outlier_range, bounds, ntri, ti, cur, thicknesses, areas, tpc, stats>>
vars == <<batchVars, meshVars, bboxVars, volVars, thickVars>>

\* What each state machine leaves alone.
notBatch == <<meshVars, bboxVars, volVars, thickVars>>
notMesh  == <<batchVars, bboxVars, volVars, thickVars>>
notBBox  == <<batchVars, meshVars, volVars, thickVars>>
notVol   == <<batchVars, meshVars, bboxVars, thickVars>>
notThick == <<batchVars, meshVars, bboxVars, volVars>>

None == [some |-> FALSE, v |-> 0]
Some(x) == [some |-> TRUE, v |-> x]

IdleBatch ==
    /\ kind = <<>> /\ fpc = <<>> /\ mpc = "idle" /\ volumes = <<>> /\ out = <<>>
NotBuilt == [by |-> "none", res |-> "none"]
IdleMesh == flatV = <<>> /\ flatI = <<>> /\ built = NotBuilt
IdleBBox == bverts = <<>> /\ bbox = None /\ bvol = None
IdleVol == mesh = [vertices |-> <<>>, faces |-> <<>>] /\ info = None
IdleThick ==
    /\ outlier_range = [some |-> FALSE, v |-> [min |-> 0, max |-> 0]]
    /\ bounds = [min |-> 0, max |-> 0] /\ ntri = 0 /\ ti = 0 /\ cur = None
    /\ thicknesses = <<>> /\ areas = <<>> /\ tpc = "idle" /\ stats = None

-----------------------------------------------------------------------------
(***************************************************************************)
(* SpecBatch: src/src/main.rs, process_file, process_files, main.          *)
(***************************************************************************)

\* Number of input files of a batch.
NumFiles == 3
Files == 1..NumFiles

\* What can happen to one file's pipeline.  open_err and decode_err are the
\* two `?` of process_file; mesh_err is TriMesh::with_flags returning Err in
\* From<&IndexedMesh> for StlMesh, hull_err the same in StlMesh::convex.
Kinds == {"ok", "open_err", "decode_err", "mesh_err", "hull_err"}

\* Files whose analysis succeeds / fails.
Succeeds(f) == kind[f] = "ok"
Fails(f) == kind[f] # "ok"

\* println!("Error opening file {} - {}", path.display(), e)
Diag(f) == <<"error", f>>
Header == <<"header", 0>>
Row(f) == <<"row", f>>

RECURSIVE SelectSome(_, _)
\* flat_map(..).collect(): the Some items, in the order of the input slice.
SelectSome(pcs, n) ==
    IF n = 0 THEN <<>>
    ELSE IF pcs[n] = "some" THEN Append(SelectSome(pcs, n - 1), n)
         ELSE SelectSome(pcs, n - 1)

\* let mut file = OpenOptions::new().read(true).open(path)?;
\* An Err goes back to the closure, which prints the line and yields None.
Open(f) ==
    /\ mpc = "process_files" /\ fpc[f] = "todo"
    /\ IF kind[f] = "open_err"
       THEN fpc' = [fpc EXCEPT ![f] = "none"] /\ out' = Append(out, Diag(f))
       ELSE fpc' = [fpc EXCEPT ![f] = "opened"] /\ out' = out
    /\ UNCHANGED <<kind, mpc, volumes, notBatch>>

\* let stl = stl_io::read_stl(&mut file)?;
ReadStl(f) ==
    /\ mpc = "process_files" /\ fpc[f] = "opened"
    /\ IF kind[f] = "decode_err"
       THEN fpc' = [fpc EXCEPT ![f] = "none"] /\ out' = Append(out, Diag(f))
       ELSE fpc' = [fpc EXCEPT ![f] = "decoded"] /\ out' = out
    /\ UNCHANGED <<kind, mpc, volumes, notBatch>>

\* The result of Result::expect on what TriMesh::with_flags returned.
Expect(isErr) == IF isErr THEN "panic" ELSE "value"

\* let stl_mesh: StlMesh = StlMesh::new_from_indexed_mesh(&stl);
\* which is mesh.into(): TriMesh::with_flags(..).expect("Could not create trimesh")
NewFromIndexedMesh(f) ==
    /\ mpc = "process_files" /\ fpc[f] = "decoded"
    /\ fpc' = [fpc EXCEPT ![f] =
                 IF Expect(kind[f] = "mesh_err") = "panic" THEN "panic" ELSE "built"]
    /\ UNCHANGED <<kind, mpc, volumes, out, notBatch>>

\* let info: VolumeInfo = stl_mesh.into(); Ok(info) => Some((path, info))
\* Into<VolumeInfo> calls self.convex(), which expects the hull's TriMesh.
IntoVolumeInfo(f) ==
    /\ mpc = "process_files" /\ fpc[f] = "built"
    /\ fpc' = [fpc EXCEPT ![f] =
                 IF Expect(kind[f] = "hull_err") = "panic" THEN "panic" ELSE "some"]
    /\ UNCHANGED <<kind, mpc, volumes, out, notBatch>>

\* .collect(): every closure has returned; process_files returns the Vec.
Collect ==
    /\ mpc = "process_files"
    /\ \A f \in Files : fpc[f] \in {"some", "none"}
    /\ volumes' = SelectSome(fpc, NumFiles)
    /\ mpc' = "header"
    /\ UNCHANGED <<kind, fpc, out, notBatch>>

\* A closure panicked.  rayon waits for the jobs that are running, may drop
\* those not started, and resumes the unwinding in the caller: process_files
\* does not return and main dies with the panic.
PropagatePanic ==
    /\ mpc = "process_files"
    /\ \E f \in Files : fpc[f] = "panic"
    /\ \A f \in Files : fpc[f] \in {"todo", "some", "none", "panic"}
    /\ mpc' = "panicked"
    /\ UNCHANGED <<kind, fpc, volumes, out, notBatch>>

\* println!("{:<70} | ...", "Filename", "Mesh volume", ...)
PrintHeader ==
    /\ mpc = "header"
    /\ out' = Append(out, Header)
    /\ mpc' = "rows"
    /\ UNCHANGED <<kind, fpc, volumes, notBatch>>

\* Rows printed so far.
RowsOf(o) == SelectSeq(o, LAMBDA l : l[1] = "row")

\* for (path, vol) in volumes.iter() { println!(..) }
PrintRow ==
    /\ mpc = "rows"
    /\ Len(RowsOf(out)) < Len(volumes)
    /\ out' = Append(out, Row(volumes[Len(RowsOf(out)) + 1]))
    /\ UNCHANGED <<kind, fpc, mpc, volumes, notBatch>>

\* Ok(())
Exit ==
    /\ mpc = "rows"
    /\ Len(RowsOf(out)) = Len(volumes)
    /\ mpc' = "exit"
    /\ UNCHANGED <<kind, fpc, volumes, out, notBatch>>

InitBatch ==
    /\ kind \in [Files -> Kinds]
    /\ fpc = [f \in Files |-> "todo"]
    /\ mpc = "process_files"
    /\ volumes = <<>>
    /\ out = <<>>
    /\ IdleMesh /\ IdleBBox /\ IdleVol /\ IdleThick

NextBatch ==
    \/ \E f \in Files : Open(f)
    \/ \E f \in Files : ReadStl(f)
    \/ \E f \in Files : NewFromIndexedMesh(f)
    \/ \E f \in Files : IntoVolumeInfo(f)
    \/ Collect
    \/ PropagatePanic
    \/ PrintHeader
    \/ PrintRow
    \/ Exit

SpecBatch ==
    InitBatch /\ [][NextBatch]_vars


\* C1: a failure in one file's pipeline (open, decode, mesh construction or
\* hull construction) never terminates the batch: main never dies with a
\* panic, and once process_files has returned every file whose analysis
\* succeeds is in the returned Vec.
C1_BatchSurvivesFailure ==
    /\ mpc # "panicked"
    /\ mpc \in {"header", "rows", "exit"} =>
         \A f \in Files : Succeeds(f) => \E k \in 1..Len(volumes) : volumes[k] = f

\* Number of lines of stdout equal to l.
Count(o, l) == Cardinality({k \in 1..Len(o) : o[k] = l})

\* C2: once the workers are joined (process_files is over, by return or by
\* unwinding), the collected result holds exactly one entry per file that
\* succeeded and none for a file that failed, every failed file has printed
\* exactly one diagnostic line, and only collected entries are printed as
\* rows.
C2_CollectedExactlySuccesses ==
    mpc # "process_files" =>
        /\ \A f \in Files :
             Cardinality({k \in 1..Len(volumes) : volumes[k] = f})
                 = (IF Succeeds(f) THEN 1 ELSE 0)
        /\ \A f \in Files : Count(out, Diag(f)) = (IF Fails(f) THEN 1 ELSE 0)
        /\ \A f \in Files :
             Count(out, Row(f)) > 0 => \E k \in 1..Len(volumes) : volumes[k] = f

-----------------------------------------------------------------------------
(***************************************************************************)
(* SpecMesh: src/src/geometry.rs, StlMesh::new and From<&IndexedMesh>.     *)
(***************************************************************************)

\* Longest flat coordinate list, longest flat index list, largest index.
MaxFloats == 9
MaxIndices == 3
MaxIndexVal == 3

\* The chunks(3) of a flat list whose length is a multiple of 3.
Chunks3(s) == [k \in 1..(Len(s) \div 3) |-> <<s[3*k - 2], s[3*k - 1], s[3*k]>>]

\* chunks(3).map(|chunk| .. chunk[0], chunk[1], chunk[2]): the last chunk of
\* a list whose length is no multiple of 3 is short, and chunk[2] (or
\* chunk[1]) is out of bounds.
ChunkPanics(s) == Len(s) % 3 # 0

\* What makes a mesh unacceptable (MeshModel's contract: an empty vertex or
\* index list, an index out of range, a triple that does not name three
\* distinct vertices).  TriMesh::with_flags answers Err for it.
WithFlagsErr(nverts, faces) ==
    \/ nverts = 0
    \/ Len(faces) = 0
    \/ \E k \in 1..Len(faces) :
         \/ \E j \in 1..3 : faces[k][j] >= nverts
         \/ Cardinality({faces[k][1], faces[k][2], faces[k][3]}) < 3

\* pub fn new(vertices: &[f32], indices: &[u32]) -> StlMesh
StlMeshNew(v, ix) ==
    IF ChunkPanics(v) \/ ChunkPanics(ix) THEN "panic"
    ELSE IF Expect(WithFlagsErr(Len(v) \div 3, Chunks3(ix))) = "panic" THEN "panic"
    ELSE "StlMesh"

\* impl From<&IndexedMesh> for StlMesh: fn from(mesh: &IndexedMesh) -> Self
StlMeshFrom(nverts, faces) ==
    IF Expect(WithFlagsErr(nverts, faces)) = "panic" THEN "panic" ELSE "StlMesh"

New ==
    /\ built = NotBuilt
    /\ built' = [by |-> "new", res |-> StlMeshNew(flatV, flatI)]
    /\ UNCHANGED <<flatV, flatI, notMesh>>

\* new_from_indexed_mesh(mesh) is mesh.into(); the decoder's IndexedMesh
\* holds whole vertices and whole faces.
NewFromIndexed ==
    /\ built = NotBuilt
    /\ ~ChunkPanics(flatV) /\ ~ChunkPanics(flatI)
    /\ built' = [by |-> "from", res |-> StlMeshFrom(Len(flatV) \div 3, Chunks3(flatI))]
    /\ UNCHANGED <<flatV, flatI, notMesh>>

RECURSIVE SeqsUpTo(_, _)
\* The sequences over S of length at most n.
SeqsUpTo(S, n) ==
    IF n = 0 THEN {<<>>}
    ELSE LET shorter == SeqsUpTo(S, n - 1)
         IN shorter \cup {Append(s, x) : s \in {t \in shorter : Len(t) = n - 1}, x \in S}

InitMesh ==
    /\ flatV \in {[k \in 1..n |-> k] : n \in 0..MaxFloats}
    /\ flatI \in SeqsUpTo(0..MaxIndexVal, MaxIndices)
    /\ built = NotBuilt
    /\ IdleBatch /\ IdleBBox /\ IdleVol /\ IdleThick

NextMesh == New \/ NewFromIndexed

SpecMesh ==
    InitMesh /\ [][NextMesh]_vars

\* The inputs the contract rejects.
BadMeshInput ==
    \/ ChunkPanics(flatV) \/ ChunkPanics(flatI)
    \/ WithFlagsErr(Len(flatV) \div 3, Chunks3(flatI))

\* C7: constructing a mesh from an empty vertex list, an empty index list,
\* an index out of range or a triple that is not three distinct vertices
\* gives the caller an error value: no StlMesh, and no abort.
C7_BadInputIsErrorValue ==
    (built # NotBuilt /\ BadMeshInput) => built.res = "Err"

-----------------------------------------------------------------------------
(***************************************************************************)
(* SpecBBox: src/main.rs, BoundingBox.                                     *)
(***************************************************************************)

\* Coordinates are -BCoordMax..BCoordMax; a mesh has 1..MaxBVerts vertices.
BCoordMax == 1
MaxBVerts == 2
BCoord == (-BCoordMax)..BCoordMax
BPoints == BCoord \X BCoord \X BCoord

\* f32::MAX, and f32::MIN = -f32::MAX: the sentinels of the reduction.  The
\* model's value is only larger than every coordinate.
F32_MAX == 1000000
F32_MIN == -F32_MAX

min(a, b) == IF a < b THEN a ELSE b
max(a, b) == IF a > b THEN a ELSE b
abs(a) == IF a < 0 THEN -a ELSE a

\* One turn of `for vertex in mesh.vertices.iter()`.
BBoxStep(b, vertex) ==
    LET xmin == min(b.xmin, vertex[1])
        ymin == min(b.ymin, vertex[2])
        zmin == min(b.zmin, vertex[3])
        xmax == max(b.xmax, vertex[1])
        ymax == max(b.ymax, vertex[2])
        \* bbox.zmax = bbox.xmax.max(vertex[2]): xmax, already updated
        zmax == max(xmax, vertex[3])
    IN [xmin |-> xmin, xmax |-> xmax, ymin |-> ymin, ymax |-> ymax,
        zmin |-> zmin, zmax |-> zmax]

RECURSIVE BBoxFold(_, _, _)
BBoxFold(b, vs, k) ==
    IF k > Len(vs) THEN b ELSE BBoxFold(BBoxStep(b, vs[k]), vs, k + 1)

\* impl From<&IndexedMesh> for BoundingBox
BoundingBoxFrom(vs) ==
    BBoxFold([xmin |-> F32_MAX, xmax |-> F32_MIN, ymin |-> F32_MAX,
              ymax |-> F32_MIN, zmin |-> F32_MAX, zmax |-> F32_MIN], vs, 1)

\* BoundingBox::volume
BoundingBoxVolume(b) ==
    abs(b.xmax - b.xmin) * abs(b.ymax - b.ymin) * abs(b.zmax - b.zmin)

ComputeBBox ==
    /\ ~bbox.some
    /\ bbox' = Some(BoundingBoxFrom(bverts))
    /\ UNCHANGED <<bverts, bvol, notBBox>>

ComputeBBoxVolume ==
    /\ bbox.some /\ ~bvol.some
    /\ bvol' = Some(BoundingBoxVolume(bbox.v))
    /\ UNCHANGED <<bverts, bbox, notBBox>>

InitBBox ==
    /\ bverts \in (SeqsUpTo(BPoints, MaxBVerts) \ {<<>>})
    /\ bbox = None /\ bvol = None
    /\ IdleBatch /\ IdleMesh /\ IdleVol /\ IdleThick

NextBBox == ComputeBBox \/ ComputeBBoxVolume

SpecBBox ==
    InitBBox /\ [][NextBBox]_vars

\* Smallest and largest coordinate of the vertices on axis a.
AxisMin(vs, a) == CHOOSE m \in {vs[k][a] : k \in 1..Len(vs)} :
                      \A k \in 1..Len(vs) : m <= vs[k][a]
AxisMax(vs, a) == CHOOSE m \in {vs[k][a] : k \in 1..Len(vs)} :
                      \A k \in 1..Len(vs) : m >= vs[k][a]

\* C3: on each axis the box's min is the smallest and its max the largest
\* coordinate of any vertex, and its volume is the product of the three
\* extents (zero when all vertices coincide).
C3_BoundingBoxIsTight ==
    /\ bbox.some =>
         /\ bbox.v.xmin = AxisMin(bverts, 1) /\ bbox.v.xmax = AxisMax(bverts, 1)
         /\ bbox.v.ymin = AxisMin(bverts, 2) /\ bbox.v.ymax = AxisMax(bverts, 2)
         /\ bbox.v.zmin = AxisMin(bverts, 3) /\ bbox.v.zmax = AxisMax(bverts, 3)
    /\ bvol.some =>
         bvol.v = (AxisMax(bverts, 1) - AxisMin(bverts, 1))
                    * (AxisMax(bverts, 2) - AxisMin(bverts, 2))
                    * (AxisMax(bverts, 3) - AxisMin(bverts, 3))

-----------------------------------------------------------------------------
(***************************************************************************)
(* SpecVolume: src/main.rs, volume and From<&IndexedMesh> for VolumeInfo.  *)
(***************************************************************************)

\* Coordinates are 0..VCoordMax; a mesh has 1..MaxVVerts vertices and at
\* most MaxFaces faces, each an index triple into the vertices.
VCoordMax == 1
MaxVVerts == 3
MaxFaces == 2
VCoord == 0..VCoordMax
VPoints == VCoord \X VCoord \X VCoord

\* An f32 that need not be an integer, as the fraction n / d with d > 0.
RECURSIVE Gcd(_, _)
Gcd(a, b) == IF b = 0 THEN a ELSE Gcd(b, a % b)
Frac(n, d) == LET g == Gcd(abs(n), d) IN [n |-> n \div g, d |-> d \div g]
FAdd(a, b) == Frac(a.n * b.d + b.n * a.d, a.d * b.d)
FSub(a, b) == Frac(a.n * b.d - b.n * a.d, a.d * b.d)
FMul(a, b) == Frac(a.n * b.n, a.d * b.d)
FNeg(a) == Frac(-a.n, a.d)
FEq(a, b) == a.n * b.d = b.n * a.d

\* fn vector_dot(a, b): a[0] * b[0] + a[1] * b[1] + a[2] * b[2]
vector_dot(a, b) == a[1] * b[1] + a[2] * b[2] + a[3] * b[3]

\* vector_cross with the sign of one product of y slipped.
vector_cross_sign_slip(a, b) ==
    LET x == a[2] * b[3] - a[3] * b[2]
        y == a[3] * b[1] + a[1] * b[3]
        z == a[1] * b[2] - a[2] * b[1]
    IN <<x, y, z>>

\* fn vector_cross(a, b)
vector_cross(a, b) ==
    LET x == a[2] * b[3] - a[3] * b[2]
        y == a[3] * b[1] - a[1] * b[3]
        z == a[1] * b[2] - a[2] * b[1]
    IN <<x, y, z>>

\* fn vol_triangle_sgn(p1, p2, p3): vector_dot(p1, &vector_cross(p2, p3)) / 6.0
vol_triangle_sgn(p1, p2, p3) == Frac(vector_dot(p1, vector_cross(p2, p3)), 6)

RECURSIVE VolumeLoop(_, _, _)
\* for face in mesh.faces.iter() { .. sum += vol_triangle_sgn(&p1, &p2, &p3); }
\* face.vertices[k] is a 0-based index into mesh.vertices.
VolumeLoop(m, k, sum) ==
    IF k > Len(m.faces) THEN sum
    ELSE LET face == m.faces[k]
             p1 == m.vertices[face[1] + 1]
             p2 == m.vertices[face[2] + 1]
             p3 == m.vertices[face[3] + 1]
         IN VolumeLoop(m, k + 1, FAdd(sum, vol_triangle_sgn(p1, p2, p3)))

\* fn volume(mesh: &IndexedMesh) -> f32, with let mut sum = 0.0
volume(m) == VolumeLoop(m, 1, Frac(0, 1))

\* impl From<&IndexedMesh> for VolumeInfo (filename is set by the caller)
VolumeInfoFrom(m) ==
    [mesh |-> volume(m),
     bounding_box |-> BoundingBoxVolume(BoundingBoxFrom(m.vertices))]

\* let mut info = VolumeInfo::from(&stl);
ComputeVolumeInfo ==
    /\ ~info.some
    /\ info' = Some(VolumeInfoFrom(mesh))
    /\ UNCHANGED <<mesh, notVol>>

\* The index triples over n vertices.
Triples(n) == (0..(n - 1)) \X (0..(n - 1)) \X (0..(n - 1))

InitVolume ==
    /\ \E vs \in (SeqsUpTo(VPoints, MaxVVerts) \ {<<>>}) :
         \E fs \in SeqsUpTo(Triples(Len(vs)), MaxFaces) :
            mesh = [vertices |-> vs, faces |-> fs]
    /\ info = None
    /\ IdleBatch /\ IdleMesh /\ IdleBBox /\ IdleThick

NextVolume == ComputeVolumeInfo

SpecVolume == InitVolume /\ [][NextVolume]_vars

\* The mesh with every face (i, j, k) replaced by (i, k, j).
ReverseWinding(m) ==
    [m EXCEPT !.faces = [k \in 1..Len(m.faces) |->
                           <<m.faces[k][1], m.faces[k][3], m.faces[k][2]>>]]

\* The 3x3 determinant with rows p1, p2, p3, expanded along the first row.
Det3(p1, p2, p3) ==
    p1[1] * (p2[2] * p3[3] - p2[3] * p3[2])
      - p1[2] * (p2[1] * p3[3] - p2[3] * p3[1])
      + p1[3] * (p2[1] * p3[2] - p2[2] * p3[1])

RECURSIVE SumDet(_, _)
\* The sum of the faces' determinants, faces 1..k.
SumDet(m, k) ==
    IF k = 0 THEN 0
    ELSE SumDet(m, k - 1)
           + Det3(m.vertices[m.faces[k][1] + 1], m.vertices[m.faces[k][2] + 1],
                  m.vertices[m.faces[k][3] + 1])

\* C4: the signed volume is the sum over the faces of dot(p1, cross(p2, p3)) / 6,
\* and the mesh with every winding reversed has exactly the negated volume.
C4_SignedVolumeAntisymmetric ==
    info.some =>
        /\ FEq(info.v.mesh, Frac(SumDet(mesh, Len(mesh.faces)), 6))
        /\ FEq(volume(ReverseWinding(mesh)), FNeg(info.v.mesh))

\* A mesh with a face of non-zero signed volume has been analysed.
C4_Witness ==
    /\ info.some
    /\ Len(mesh.faces) = MaxFaces
    /\ info.v.mesh.n # 0
    /\ volume(ReverseWinding(mesh)).n = -info.v.mesh.n

\* C5: the mesh volume placed in VolumeInfo (and printed) is the absolute
\* value of the signed volume, so it is never negative.
C5_ReportedVolumeNonNegative ==
    info.some =>
        /\ info.v.mesh.n >= 0
        /\ FEq(info.v.mesh, Frac(abs(SumDet(mesh, Len(mesh.faces))), 6))

-----------------------------------------------------------------------------
(***************************************************************************)
(* SpecThick: src/src/geometry.rs, StlMesh::calculate_thickness and std.   *)
(*                                                                         *)
(* The triangles, their normals and areas and the ray casts are parry3d's; *)
(* each turn of the loop draws what they answer for the next triangle.     *)
(***************************************************************************)

\* A mesh has 1..MaxTris triangles; a ray cast that hits answers a distance
\* in 0..MaxDist (max_toi is 100.); a triangle with a normal has an area in
\* 1..MaxArea.
MaxTris == 2
MaxDist == 2
MaxArea == 2

\* An f32 of the statistics: NaN, the fraction q, or the square root of q.
Num(q) == [nan |-> FALSE, root |-> FALSE, q |-> q]
NaN == [nan |-> TRUE, root |-> FALSE, q |-> Frac(0, 1)]
Zero == Num(Frac(0, 1))
\* f32::sqrt: NaN stays NaN.
SqrtOf(x) == IF x.nan THEN NaN ELSE [nan |-> FALSE, root |-> TRUE, q |-> x.q]
\* sum / it.len() as f32: the sum of no terms is 0.0, and 0.0 / 0.0 is NaN.
DivLen(sum, n) == IF n = 0 THEN NaN ELSE Num(Frac(sum.n, sum.d * n))

\* let bounds = match outlier_range { Some(r) => r, None => OutlierLimits
\* { min: 0., max: std::f32::MAX } };
BoundsOf(range) ==
    IF range.some THEN range.v ELSE [min |-> 0, max |-> F32_MAX]

\* The arguments the sweep is run with: None (what Into<VolumeInfo> passes)
\* and one explicit band.
NoRange == [some |-> FALSE, v |-> [min |-> 0, max |-> 0]]
OutlierRanges == {NoRange, Some([min |-> 0, max |-> MaxDist])}

\* What parry3d answers for one triangle: a degenerate one has no normal
\* (Triangle::normal() is None); any other has an area and two casts.
CastOutcomes == {None} \cup {Some(d) : d \in 0..MaxDist}
TriangleAnswers ==
    {[normal |-> FALSE, area |-> 0, da |-> None, db |-> None]}
      \cup [normal : {TRUE}, area : 1..MaxArea, da : CastOutcomes, db : CastOutcomes]

\* The comparison turned round: the smaller of the two distances.
ThicknessOf_smaller(da, db) == IF da < db THEN da ELSE db

\* let thickness = if da > db { da } else { db };
ThicknessOf(da, db) == IF da > db THEN da ELSE db

\* if thickness > bounds.min && thickness < bounds.max
InBand(thickness, b) == thickness > b.min /\ thickness < b.max

\* calculate_thickness up to the loop: the Vecs and the bounds.
Begin ==
    /\ tpc = "start"
    /\ bounds' = BoundsOf(outlier_range)
    /\ tpc' = "sweep"
    /\ UNCHANGED <<outlier_range, ntri, ti, cur, thicknesses, areas, stats, notThick>>

\* One turn of `for triangle in self.mesh.triangles()`.
\* triangle.normal().unwrap() panics on a triangle without a normal.
SweepTriangle ==
    /\ tpc = "sweep" /\ ti < ntri
    /\ \E t \in TriangleAnswers :
         /\ cur' = Some(t)
         /\ IF ~t.normal
            THEN /\ tpc' = "panic_unwrap"
                 /\ UNCHANGED <<ti, thicknesses, areas>>
            ELSE /\ tpc' = tpc
                 /\ ti' = ti + 1
                 /\ IF t.da.some /\ t.db.some
                         /\ InBand(ThicknessOf(t.da.v, t.db.v), bounds)
                    THEN /\ thicknesses' = Append(thicknesses, ThicknessOf(t.da.v, t.db.v))
                         /\ areas' = Append(areas, t.area)
                    ELSE UNCHANGED <<thicknesses, areas>>
    /\ UNCHANGED <<outlier_range, bounds, ntri, stats, notThick>>

RECURSIVE SumSeq(_, _)
\* it.iter().sum() over the first k elements.
SumSeq(it, k) == IF k = 0 THEN 0 ELSE SumSeq(it, k - 1) + it[k]

RECURSIVE WeightedSum(_, _, _, _)
\* thicknesses.iter().zip(areas).map(|(t, a)| t * a / total_area).sum()
WeightedSum(ts, ws, total, k) ==
    IF k = 0 THEN Frac(0, 1)
    ELSE FAdd(WeightedSum(ts, ws, total, k - 1), Frac(ts[k] * ws[k], total))

RECURSIVE SquaresSum(_, _, _)
\* it.iter().map(|t| (t - avg) * (t - avg)).sum::<f32>()
SquaresSum(it, avg, k) ==
    IF k = 0 THEN Frac(0, 1)
    ELSE LET dev == FSub(Frac(it[k], 1), avg)
         IN FAdd(SquaresSum(it, avg, k - 1), FMul(dev, dev))

\* fn std(it: &[f32], avg: f32) -> f32
std(it, avg) == SqrtOf(DivLen(SquaresSum(it, avg, Len(it)), Len(it)))

RECURSIVE Insert(_, _)
Insert(sorted, x) ==
    IF sorted = <<>> THEN <<x>>
    ELSE IF x <= Head(sorted) THEN <<x>> \o sorted
         ELSE <<Head(sorted)>> \o Insert(Tail(sorted), x)

RECURSIVE Sorted(_)
\* The slice as parry3d's median leaves it: sorted in place.
Sorted(it) == IF it = <<>> THEN <<>> ELSE Insert(Sorted(Tail(it)), Head(it))

\* parry3d::utils::median on a slice that is not empty: the middle value of
\* the sorted slice, the mean of the two middle values for an even length.
median(it) ==
    LET vals == Sorted(it)
        n == Len(vals)
    IN IF n % 2 = 0 THEN Frac(vals[n \div 2] + vals[n \div 2 + 1], 2)
       ELSE Frac(vals[n \div 2 + 1], 1)

\* What median does with an empty slice.  parry3d asserts that the slice is
\* not empty, so the call panics; "zero" stands for a median that would
\* answer the sentinel instead, and shows what std then makes of it.
MedianOfNothing == {"panic", "zero"}

\* The statements after the loop, for the samples collected.
StatisticsOf(ts, ws, medianValue) ==
    LET total_area == SumSeq(ws, Len(ws))
        avg == WeightedSum(ts, ws, total_area, Len(ts))
    IN [avg |-> Num(avg),
        median |-> Num(medianValue),
        std_dev |-> std(Sorted(ts), avg),
        thicknesses |-> Sorted(ts)]

\* let total_area = ..; let avg = ..; let median = median(&mut thicknesses);
\* let std_dev = std(&thicknesses, avg); Statistics { .. }
Aggregate ==
    /\ tpc = "sweep" /\ ti = ntri
    /\ IF thicknesses = <<>>
       THEN \E m \in MedianOfNothing :
              IF m = "panic"
              THEN tpc' = "panic_median" /\ stats' = stats
              ELSE /\ tpc' = "done"
                   /\ stats' = Some(StatisticsOf(thicknesses, areas, Frac(0, 1)))
       ELSE /\ tpc' = "done"
            /\ stats' = Some(StatisticsOf(thicknesses, areas, median(thicknesses)))
    /\ UNCHANGED <<outlier_range, bounds, ntri, ti, cur, thicknesses, areas, notThick>>

InitThick ==
    /\ outlier_range \in OutlierRanges
    /\ bounds = [min |-> 0, max |-> 0]
    /\ ntri \in 1..MaxTris
    /\ ti = 0 /\ cur = None
    /\ thicknesses = <<>> /\ areas = <<>>
    /\ tpc = "start" /\ stats = None
    /\ IdleBatch /\ IdleMesh /\ IdleBBox /\ IdleVol

NextThick == Begin \/ SweepTriangle \/ Aggregate

SpecThick == InitThick /\ [][NextThick]_vars

\* C6: with no retained sample calculate_thickness returns normally, and
\* avg, median and std_dev are all the sentinel zero (none is NaN).
C6_EmptySamplesGiveZero ==
    (ti = ntri /\ thicknesses = <<>> /\ tpc \notin {"start", "sweep"}) =>
        /\ tpc = "done"
        /\ stats.v.avg = Zero
        /\ stats.v.median = Zero
        /\ ~stats.v.std_dev.nan /\ stats.v.std_dev.q = Frac(0, 1)

\* A turn of the loop has handled a triangle that has a normal.
SweptOne == tpc = "sweep" /\ tpc' = "sweep" /\ ti' = ti + 1

\* C8 as claimed: if both casts hit, the triangle's sample is the larger of
\* the two distances; if either misses, the triangle adds no sample and no
\* area.
C8_BothHitGivesLargerSample ==
    [][SweptOne =>
         LET t == cur'.v IN
         IF t.da.some /\ t.db.some
         THEN /\ thicknesses' = Append(thicknesses, max(t.da.v, t.db.v))
              /\ areas' = Append(areas, t.area)
         ELSE thicknesses' = thicknesses /\ areas' = areas]_vars

\* C8 amended: if both casts hit and the larger distance lies strictly
\* inside the band (bounds.min, bounds.max), the triangle's sample is that
\* distance and its weight the triangle's area; if either cast misses, or
\* the larger distance is outside the band, the triangle adds neither.
C8_BothHitInBandGivesLargerSample ==
    [][SweptOne =>
         LET t == cur'.v IN
         IF t.da.some /\ t.db.some
              /\ max(t.da.v, t.db.v) > bounds.min /\ max(t.da.v, t.db.v) < bounds.max
         THEN /\ thicknesses' = Append(thicknesses, max(t.da.v, t.db.v))
              /\ areas' = Append(areas, t.area)
         ELSE thicknesses' = thicknesses /\ areas' = areas]_vars

\* Both casts of the last triangle hit at different distances and the
\* larger one was retained with the triangle's area.
C8_Witness ==
    /\ tpc = "sweep" /\ cur.some /\ cur.v.normal
    /\ cur.v.da.some /\ cur.v.db.some /\ cur.v.da.v < cur.v.db.v
    /\ thicknesses # <<>>
    /\ thicknesses[Len(thicknesses)] = cur.v.db.v
    /\ areas[Len(areas)] = cur.v.area

\* C9: a degenerate triangle (no normal) is skipped: the sweep goes on and
\* calculate_thickness does not fail on it.
C9_DegenerateTriangleSkipped ==
    (cur.some /\ ~cur.v.normal) => tpc \in {"sweep", "done"}

RECURSIVE DeviationSquares(_, _, _)
\* The sum over the first k samples of (t - s / n)^2.
DeviationSquares(it, s, k) ==
    IF k = 0 THEN Frac(0, 1)
    ELSE LET dev == FSub(Frac(it[k], 1), Frac(s, Len(it)))
         IN FAdd(DeviationSquares(it, s, k - 1), FMul(dev, dev))

RECURSIVE DotSeq(_, _, _)
\* The sum over the first k samples of t * a.
DotSeq(ts, ws, k) == IF k = 0 THEN 0 ELSE DotSeq(ts, ws, k - 1) + ts[k] * ws[k]

\* C10: for a non-empty sample sequence avg is the area-weighted average and
\* std_dev the standard deviation around the unweighted mean of the samples.
C10_StdAroundUnweightedMean ==
    (tpc = "done" /\ thicknesses # <<>>) =>
        /\ stats.v.avg =
             Num(Frac(DotSeq(thicknesses, areas, Len(areas)), SumSeq(areas, Len(areas))))
        /\ stats.v.std_dev =
             SqrtOf(Num(LET n == Len(thicknesses)
                            sq == DeviationSquares(thicknesses,
                                                   SumSeq(thicknesses, n), n)
                        IN Frac(sq.n, sq.d * n)))

=============================================================================
